---- MODULE Spec2Model ----
(***************************************************************************)
(* Model of the LAN traffic tracker backend (src/unnamed/part_000, Go):    *)
(* the BandwidthMonitor device registry (UpdateStats, GetNetworkStats,     *)
(* handleGetDevice), the bounded broadcast channel fed by the periodic     *)
(* ticker, and the WebSocket subscriber set served by broadcastStats and   *)
(* handleWebSocket under the clientsMu read/write mutex.                   *)
(***************************************************************************)
EXTENDS Integers, Sequences, FiniteSets, TLC

(***************************************************************************)
(* Bounds of the model.                                                    *)
(***************************************************************************)
\* uint64 arithmetic wraps modulo 2^64.  TLC's integers are 32 bits wide, so
\* the modulus is scaled down; every counter of the model wraps at Uint64Mod.
Uint64Mod == 65536
\* UpdateStats calls in one behaviour of Spec.
MaxCalls == 2
\* UpdateStats calls in one behaviour of SpecScenario.
MaxFrames == 3
\* UpdateStats calls in one behaviour of SpecLookup.
MaxLookupCalls == 2
\* Ticker firings in one behaviour of SpecBroadcast.
MaxBcastTicks == 2
\* Ticker firings, and snapshots the broadcaster takes, in one behaviour of SpecQueue.
MaxQueueTicks == 258
MaxQueuePops == 2
\* UpdateStats calls and ticker firings in one behaviour of SpecSnapshot.
MaxSnapCalls == 2
MaxSnapTicks == 1

\* Broadcasts and removals in one behaviour of SpecClients.
MaxPasses == 2
MaxRemovals == 3

\* Ticker firings in one behaviour of SpecShutdown.
MaxShutTicks == 1

\* UpdateStats calls in one behaviour of SpecFrame.
MaxFrameCalls == 3

\* Frames read, and ticker firings, in one behaviour of SpecCapture.
MaxCaptured == 2
MaxCapTicks == 1

\* Ticker firings in one behaviour of SpecWrites.
MaxWriteTicks == 1

\* new WebSocket calls in one behaviour of SpecDashboard.
MaxAttempts == 4

MaxUint64 == Uint64Mod - 1

(***************************************************************************)
(* Input values.                                                           *)
(***************************************************************************)
Broadcast == "ff:ff:ff:ff:ff:ff"
MacA == "aa:aa:aa:aa:aa:aa"
MacB == "bb:bb:bb:bb:bb:bb"
MacC == "cc:cc:cc:cc:cc:cc"
\* Hardware addresses UpdateStats is called with ("" : no Ethernet layer).
MACs == {"", Broadcast, MacA, MacB}
\* Keys a device can be looked up by.
Keys == {MacA, MacB, Broadcast, ""}
\* The source and destination IP of a frame: both empty (no IPv4 layer) or both set.
IPPairs == {<<"", "">>, <<"10.0.0.1", "10.0.0.2">>}
\* The hardware addresses of the frames of SpecFrame: three stations and the
\* broadcast address.
FrameMACs == {MacA, MacB, MacC, Broadcast}
\* packet.Layer(...) == nil
NoLayer == [absent |-> TRUE]
\* The Ethernet layers and the IPv4 layers a captured packet can carry.
EthLayers == {[src |-> s, dst |-> d] : s \in {MacA, MacB}, d \in {MacB, Broadcast}}
IPv4Layers == {[src |-> "10.0.0.1", dst |-> "10.0.0.2"]}
\* The packets the capture source can deliver: each layer present or not.
Packets ==
    [eth : EthLayers \cup {NoLayer}, ipv4 : IPv4Layers \cup {NoLayer}, len : {64, 1500}]
\* Frame lengths, among them the largest value a uint64 holds.
Sizes == {64, 128, 1500, MaxUint64}

VARIABLES
    devices,    \* bm.devices: MAC -> DeviceStats (the records the map owns)
    clock,      \* the wall clock read by time.Now()
    calls,      \* history: number of UpdateStats calls made
    sentSum,    \* history: per MAC, exact sum of packetSize over calls with that source
    recvSum,    \* history: per MAC, exact sum of packetSize over calls with that destination
    sentCnt,    \* history: per MAC, number of calls with that source
    recvCnt,    \* history: per MAC, number of calls with that destination
    scen,       \* history: how far the calls made so far follow scenario A (-1: not at all)
    addrs,      \* history: per MAC, the non-empty IP addresses supplied for it, in order
    removal,    \* history: the last delete(bm.clients, c) made by SpecClients
    broadcast,  \* bm.broadcast: the buffered channel of *NetworkStats
    produced,   \* history: snapshots created by the ticker
    lastPush,   \* outcome of the ticker's last select: "sent" | "default" | "none"
    dropped,    \* history: the timestamps of the snapshots the ticker has discarded
    getdev,     \* the handleGetDevice request in flight
    clients,    \* bm.clients: the registered connections
    mu,         \* bm.clientsMu: who holds or awaits the write lock, who holds read locks
    conn,       \* per connection: "none" | "open" | "broken" (peer gone) | "closed"
    hpc,        \* per connection: where its handleWebSocket goroutine stands
    bcast,      \* the broadcastStats goroutine: pc, snapshot in hand, clients left to visit
    received,   \* history: per connection, the snapshots delivered to it, in order
    regAt,      \* history: per connection, the clock when it was registered (-1: never)
    main,       \* where main stands: "serving" | "shutdown" (signal received) | "exited"
    capture,    \* the packet capture goroutine: "ranging" over packets | "ended"
    frames,     \* history: the packets the capture goroutine has received, in order
    writing,    \* per connection: the WriteJSON calls in progress on it (SpecWrites)
    dash        \* the Dashboard component (part_001): its refs, sockets and timers

regVars == <<devices, clock>>
histVars == <<calls, sentSum, recvSum, sentCnt, recvCnt, scen, addrs, removal>>
chanVars == <<broadcast, produced, lastPush, dropped>>
wsVars == <<clients, mu, conn, hpc, bcast, received, regAt>>
capVars == <<capture, frames>>
procVars == <<main, capVars, writing, dash>>
vars == <<devices, clock, calls, sentSum, recvSum, sentCnt, recvCnt, scen, addrs, removal,
          broadcast, produced, lastPush, dropped, getdev,
          clients, mu, conn, hpc, bcast, received, regAt, main, capture, frames, writing,
          dash>>

\* Everything but the dashboard.
backendVars == <<regVars, histVars, chanVars, getdev, wsVars, main, capVars, writing>>

(***************************************************************************)
(* DeviceStats and the device registry.                                    *)
(***************************************************************************)
\* Addition that stops at the largest uint64 instead of wrapping.
AddSaturating(a, b) == IF a + b > Uint64Mod - 1 THEN Uint64Mod - 1 ELSE a + b

\* uint64 addition.
Add64(a, b) == (a + b) % Uint64Mod

\* &DeviceStats{MAC: mac, IP: ip}: every other field has its zero value.
NewDeviceStats(mac, ip) ==
    [MAC |-> mac, IP |-> ip, BytesSent |-> 0, BytesRecv |-> 0,
     PacketsSent |-> 0, PacketsRecv |-> 0, LastSeen |-> 0, Hostname |-> ""]

\* Ensure making a new map for the new key.
EnsureOnly(devs, mac, ip) ==
    IF mac \in DOMAIN devs THEN devs
    ELSE [k \in {mac} |-> NewDeviceStats(mac, ip)]

\* bm.devices[key] = &DeviceStats{...} when the key does not exist yet.
Ensure(devs, mac, ip) ==
    IF mac \in DOMAIN devs THEN devs
    ELSE [k \in DOMAIN devs \cup {mac} |->
            IF k = mac THEN NewDeviceStats(mac, ip) ELSE devs[k]]

\* Attributed without the test for the broadcast address.
AttributedBroadcast(mac) == mac # ""

\* The hardware addresses UpdateStats attributes traffic to.
Attributed(mac) == mac # "" /\ mac # Broadcast

\* UpdateSource with "=" for "+=" on BytesSent.
UpdateSourceOverwrite(devs, srcMAC, srcIP, packetSize, now) ==
    IF Attributed(srcMAC)
    THEN LET d == Ensure(devs, srcMAC, srcIP)
             r == d[srcMAC]
         IN [d EXCEPT ![srcMAC] =
                [r EXCEPT !.BytesSent = packetSize,
                          !.PacketsSent = Add64(r.PacketsSent, 1),
                          !.LastSeen = now,
                          !.IP = IF srcIP # "" /\ r.IP = "" THEN srcIP ELSE r.IP]]
    ELSE devs

\* "Update source device": the first block of UpdateStats.
UpdateSource(devs, srcMAC, srcIP, packetSize, now) ==
    IF Attributed(srcMAC)
    THEN LET d == Ensure(devs, srcMAC, srcIP)
             r == d[srcMAC]
         IN [d EXCEPT ![srcMAC] =
                [r EXCEPT !.BytesSent = Add64(r.BytesSent, packetSize),
                          !.PacketsSent = Add64(r.PacketsSent, 1),
                          !.LastSeen = now,
                          !.IP = IF srcIP # "" /\ r.IP = "" THEN srcIP ELSE r.IP]]
    ELSE devs

\* UpdateDest without PacketsRecv++.
UpdateDestNoCount(devs, dstMAC, dstIP, packetSize, now) ==
    IF Attributed(dstMAC)
    THEN LET d == Ensure(devs, dstMAC, dstIP)
             r == d[dstMAC]
         IN [d EXCEPT ![dstMAC] =
                [r EXCEPT !.BytesRecv = Add64(r.BytesRecv, packetSize),
                          !.LastSeen = now,
                          !.IP = IF dstIP # "" /\ r.IP = "" THEN dstIP ELSE r.IP]]
    ELSE devs

\* UpdateDest with the IP assigned whenever dstIP is not empty.
UpdateDestOverwriteIP(devs, dstMAC, dstIP, packetSize, now) ==
    IF Attributed(dstMAC)
    THEN LET d == Ensure(devs, dstMAC, dstIP)
             r == d[dstMAC]
         IN [d EXCEPT ![dstMAC] =
                [r EXCEPT !.BytesRecv = Add64(r.BytesRecv, packetSize),
                          !.PacketsRecv = Add64(r.PacketsRecv, 1),
                          !.LastSeen = now,
                          !.IP = IF dstIP # "" THEN dstIP ELSE r.IP]]
    ELSE devs

\* "Update destination device": the second block of UpdateStats.
UpdateDest(devs, dstMAC, dstIP, packetSize, now) ==
    IF Attributed(dstMAC)
    THEN LET d == Ensure(devs, dstMAC, dstIP)
             r == d[dstMAC]
         IN [d EXCEPT ![dstMAC] =
                [r EXCEPT !.BytesRecv = Add64(r.BytesRecv, packetSize),
                          !.PacketsRecv = Add64(r.PacketsRecv, 1),
                          !.LastSeen = now,
                          !.IP = IF dstIP # "" /\ r.IP = "" THEN dstIP ELSE r.IP]]
    ELSE devs

\* UpdatedDevices stamping LastSeen on every record of the registry.
UpdatedDevicesTouchAll(devs, srcMAC, dstMAC, srcIP, dstIP, packetSize, now) ==
    LET d == UpdateDest(UpdateSource(devs, srcMAC, srcIP, packetSize, now),
                        dstMAC, dstIP, packetSize, now)
    IN [k \in DOMAIN d |-> [d[k] EXCEPT !.LastSeen = now]]

\* The registry after UpdateStats(srcMAC, dstMAC, srcIP, dstIP, packetSize).
UpdatedDevices(devs, srcMAC, dstMAC, srcIP, dstIP, packetSize, now) ==
    UpdateDest(UpdateSource(devs, srcMAC, srcIP, packetSize, now),
               dstMAC, dstIP, packetSize, now)

(***************************************************************************)
(* Snapshots.  NetworkStats.Devices is a slice of pointers: a pointer is   *)
(* either to a record the registry owns (named by its key, records are     *)
(* never deleted) or to a private copy (which carries its value).          *)
(***************************************************************************)
NoRec == [MAC |-> "none"]

\* The pointer dev itself, appended in place of a pointer to a copy.
DevAlias(dev, key) == [own |-> "registry", key |-> key, rec |-> NoRec]

\* devCopy := *dev; &devCopy
DevCopy(dev, key) == [own |-> "copy", key |-> key, rec |-> dev]

\* A pointer into the registry, as bm.devices[mac] yields it.
DevRef(key) == [own |-> "registry", key |-> key, rec |-> NoRec]

\* The record a pointer points to, given the registry.
Deref(p, devs) == IF p.own = "registry" THEN devs[p.key] ELSE p.rec

\* The less function handed to sort.Slice: total bandwidth, in uint64 arithmetic.
Less(a, b) == Add64(a.BytesSent, a.BytesRecv) > Add64(b.BytesSent, b.BytesRecv)

\* The orders in which the keys of a set can be listed.
Perms(S) == {s \in [1..Cardinality(S) -> S] : \A i, j \in 1..Cardinality(S) : i # j => s[i] # s[j]}

\* The slice left in map order: no sort.
MapOrder(devs) == Perms(DOMAIN devs)

\* The outcomes of ranging over the map and sort.Slice-ing the copies: Go's map
\* order is unspecified and sort.Slice is not stable, so every order of the
\* keys that less does not contradict is a possible result.
SortSlice(devs) ==
    {s \in Perms(DOMAIN devs) :
        \A i, j \in 1..Len(s) : i < j => ~Less(devs[s[j]], devs[s[i]])}

\* A uint64 accumulated over the records of the map (totalSent += dev.BytesSent).
RECURSIVE Sum64(_, _)
Sum64(f, S) ==
    IF S = {} THEN 0
    ELSE LET k == CHOOSE x \in S : TRUE
         IN Add64(f[k], Sum64(f, S \ {k}))

\* bm.startTime, set by NewBandwidthMonitor.
startTime == 0

\* GetNetworkStats with totalPackets += dev.PacketsSent only.
GetNetworkStatsSentOnly(devs, order, now) ==
    [Devices |-> [i \in 1..Len(order) |-> DevCopy(devs[order[i]], order[i])],
     TotalSent |-> Sum64([k \in DOMAIN devs |-> devs[k].BytesSent], DOMAIN devs),
     TotalRecv |-> Sum64([k \in DOMAIN devs |-> devs[k].BytesRecv], DOMAIN devs),
     TotalPackets |-> Sum64([k \in DOMAIN devs |-> devs[k].PacketsSent], DOMAIN devs),
     ActiveDevices |-> Len(order),
     MonitorDuration |-> now - startTime,
     Timestamp |-> now]

\* GetNetworkStats, for one outcome `order` of the sort, with time.Now() = now.
GetNetworkStats(devs, order, now) ==
    [Devices |-> [i \in 1..Len(order) |-> DevCopy(devs[order[i]], order[i])],
     TotalSent |-> Sum64([k \in DOMAIN devs |-> devs[k].BytesSent], DOMAIN devs),
     TotalRecv |-> Sum64([k \in DOMAIN devs |-> devs[k].BytesRecv], DOMAIN devs),
     TotalPackets |-> Sum64([k \in DOMAIN devs |->
                               Add64(devs[k].PacketsSent, devs[k].PacketsRecv)],
                            DOMAIN devs),
     ActiveDevices |-> Len(order),
     MonitorDuration |-> now - startTime,
     Timestamp |-> now]

(***************************************************************************)
(* The broadcast channel.                                                  *)
(***************************************************************************)
\* make(chan *NetworkStats, 256)
BroadcastCap == 256

\* TryPush dropping the oldest snapshot to make room.
TryPushEvict(q, stats) ==
    IF Len(q) < BroadcastCap THEN Append(q, stats) ELSE Append(Tail(q), stats)

\* TryPush putting the snapshot in the place of the newest one when full.
TryPushReplaceLast(q, stats) ==
    IF Len(q) < BroadcastCap THEN Append(q, stats) ELSE [q EXCEPT ![Len(q)] = stats]

\* select { case bm.broadcast <- stats: default: }: the channel afterwards.
TryPush(q, stats) == IF Len(q) < BroadcastCap THEN Append(q, stats) ELSE q

\* Which branch of that select runs.
PushOutcome(q) == IF Len(q) < BroadcastCap THEN "sent" ELSE "default"

(***************************************************************************)
(* handleGetDevice: the pointer is fetched under the read lock, and the    *)
(* record behind it is encoded, field by field, after the lock is released.*)
(***************************************************************************)
\* The fields of DeviceStats in the order encoding/json reads them.
DeviceStatsFields ==
    <<"MAC", "IP", "BytesSent", "BytesRecv", "PacketsSent", "PacketsRecv",
      "LastSeen", "Hostname">>

\* No request in flight.
Idle == [pc |-> "idle"]

\* The response body before any field has been written.
Unread ==
    [MAC |-> "unread", IP |-> "unread", BytesSent |-> "unread", BytesRecv |-> "unread",
     PacketsSent |-> "unread", PacketsRecv |-> "unread", LastSeen |-> "unread",
     Hostname |-> "unread"]

\* device, exists := bm.devices[mac], under the read lock; then either the 404
\* or the start of the encoding.  `seen` is history: the values the record has
\* had since the lookup.
Lookup(devs, mac) ==
    IF mac \in DOMAIN devs
    THEN [pc |-> "encode", mac |-> mac, device |-> DevRef(mac), idx |-> 1,
          out |-> Unread, seen |-> {devs[mac]}]
    ELSE [pc |-> "done", mac |-> mac, status |-> 404]

\* The encoder reads the next field through the pointer; after the last
\* field the response is complete.
EncodeField(req, devs) ==
    LET field == DeviceStatsFields[req.idx]
        out == [req.out EXCEPT ![field] = Deref(req.device, devs)[field]]
    IN IF req.idx < Len(DeviceStatsFields)
       THEN [req EXCEPT !.idx = @ + 1, !.out = out]
       ELSE [pc |-> "done", mac |-> req.mac, status |-> 200, out |-> out,
             seen |-> req.seen]

(***************************************************************************)
(* The subscriber set and its lock.  sync.RWMutex: Lock first excludes     *)
(* other writers and new readers, then waits until the readers that hold   *)
(* the lock have released it; RLock waits while a writer holds or awaits   *)
(* the lock.                                                               *)
(***************************************************************************)
\* The connections that may arrive.
Conns == {"c1", "c2"}
\* The broadcastStats goroutine.
Broadcaster == "broadcaster"

NoStats == [Timestamp |-> -1]

\* delete that empties the map when the key is absent.
DeleteOrClear(cl, c) == IF c \in cl THEN cl \ {c} ELSE {}

\* bm.clients[conn] = true
Register(cl, c) == cl \cup {c}

\* delete(bm.clients, conn)
Delete(cl, c) == cl \ {c}

\* RLock can return.
CanRLock(m) == m.writer = "none"

\* Lock can exclude other writers and new readers (its first half).
CanLock(m) == m.writer = "none"

\* Lock can return for p (its second half): the readers have left.
LockHeld(m, p) == m.writer = p /\ m.readers = {}

\* WriteJSON returns an error exactly on a connection that is not open.
WriteFails(state) == state # "open"

\* No delete has been made yet.
NoRemoval == [n |-> 0, client |-> "none", present |-> FALSE, at |-> -1]

\* A WriteJSON(stats) call in progress, made by goroutine p.
Write(p, stats) == [by |-> p, stats |-> stats]

\* The record of one delivery.
Delivery(kind, stats) == [kind |-> kind, stats |-> stats]

(***************************************************************************)
(* The Dashboard component (part_001).  sockets lists the WebSockets it    *)
(* has created: readyState rs, and its error event ("none", "queued" for   *)
(* dispatch, or "fired").  timers is the browser's set of pending timeouts; wsRef and *)
(* reconnectTimeoutRef hold 0 for null.                                    *)
(***************************************************************************)
\* useRef(null), useState('connecting'), before the effect has run.
InitialDashboard ==
    [effect |-> "idle", wsRef |-> 0, reconnectTimeoutRef |-> 0,
     connectionStatus |-> "connecting", sockets |-> <<>>, timers |-> {},
     nextTimer |-> 1, attempts |-> 0]

\* setTimeout(..., 3000), its id stored in reconnectTimeoutRef.current.
SetTimeout(d) ==
    [d EXCEPT !.timers = @ \cup {d.nextTimer},
              !.reconnectTimeoutRef = d.nextTimer,
              !.nextTimer = @ + 1]

\* if (!reconnectTimeoutRef.current) { reconnectTimeoutRef.current = setTimeout(...) }
ScheduleReconnect(d) == IF d.reconnectTimeoutRef = 0 THEN SetTimeout(d) ELSE d

\* connectWebSocket(): new WebSocket(wsUrl) either throws, and the catch
\* block schedules a reconnect, or yields a connecting socket that wsRef is
\* pointed at.
ConnectWebSocket(d, throws) ==
    IF throws
    THEN ScheduleReconnect([d EXCEPT !.attempts = @ + 1,
                                     !.connectionStatus = "disconnected"])
    ELSE [d EXCEPT !.attempts = @ + 1,
                   !.sockets = Append(@, [rs |-> "connecting", error |-> "none"]),
                   !.wsRef = Len(d.sockets) + 1]

\* websocket.onopen
OnOpen(d) ==
    [d EXCEPT !.connectionStatus = "connected",
              !.timers = IF d.reconnectTimeoutRef # 0 THEN @ \ {d.reconnectTimeoutRef} ELSE @,
              !.reconnectTimeoutRef = 0]

\* websocket.onerror
OnError(d) == [d EXCEPT !.connectionStatus = "disconnected"]

\* websocket.onclose
OnClose(d) == ScheduleReconnect([d EXCEPT !.connectionStatus = "disconnected"])

\* The timeout's callback with reconnectTimeoutRef left as it is.
TimerCallbackKeepRef(d, throws) == ConnectWebSocket(d, throws)

\* The timeout's callback: reconnectTimeoutRef.current = null; connectWebSocket().
TimerCallback(d, throws) == ConnectWebSocket([d EXCEPT !.reconnectTimeoutRef = 0], throws)

\* WebSocket.close(): a socket that is connecting or open starts closing, and
\* its close event is dispatched later.
CloseSocket(sock) ==
    IF sock.rs \in {"connecting", "open"} THEN [sock EXCEPT !.rs = "closing"] ELSE sock

\* The effect's cleanup: clearTimeout on the stored id (the ref keeps it),
\* close() on the socket wsRef points at.
Cleanup(d) ==
    [d EXCEPT !.effect = "cleaned",
              !.timers = IF d.reconnectTimeoutRef # 0 THEN @ \ {d.reconnectTimeoutRef} ELSE @,
              !.sockets = IF d.wsRef # 0
                          THEN [@ EXCEPT ![d.wsRef] = CloseSocket(@)]
                          ELSE @]

(***************************************************************************)
(* Scenario A: (A -> B, 64), (B -> A, 1500), (A -> broadcast, 128).        *)
(***************************************************************************)
ScenarioA ==
    <<[src |-> MacA, dst |-> MacB, size |-> 64],
      [src |-> MacB, dst |-> MacA, size |-> 1500],
      [src |-> MacA, dst |-> Broadcast, size |-> 128]>>

ScenNext(k, srcMAC, dstMAC, packetSize) ==
    IF k >= 0 /\ k < Len(ScenarioA)
       /\ ScenarioA[k + 1] = [src |-> srcMAC, dst |-> dstMAC, size |-> packetSize]
    THEN k + 1
    ELSE -1

ZeroPerMac == [m \in MACs \cup FrameMACs |-> 0]

\* The addresses supplied so far, after ip has been supplied for mac.
Supplied(a, mac, ip) == IF ip # "" THEN [a EXCEPT ![mac] = Append(@, ip)] ELSE a

(***************************************************************************)
(* Initial state: the state NewBandwidthMonitor returns.                   *)
(***************************************************************************)
Init ==
    /\ devices = <<>>
    /\ clock = 0
    /\ calls = 0
    /\ sentSum = ZeroPerMac
    /\ recvSum = ZeroPerMac
    /\ sentCnt = ZeroPerMac
    /\ recvCnt = ZeroPerMac
    /\ scen = 0
    /\ addrs = [m \in MACs \cup FrameMACs |-> <<>>]
    /\ removal = NoRemoval
    /\ broadcast = <<>>
    /\ produced = 0
    /\ lastPush = "none"
    /\ dropped = {}
    /\ getdev = Idle
    /\ clients = {}
    /\ mu = [writer |-> "none", readers |-> {}]
    /\ conn = [c \in Conns |-> "none"]
    /\ hpc = [c \in Conns |-> "new"]
    /\ bcast = [pc |-> "recv", stats |-> NoStats, remaining |-> {}, client |-> "none"]
    /\ received = [c \in Conns |-> <<>>]
    /\ regAt = [c \in Conns |-> -1]
    /\ main = "serving"
    /\ capture = "ranging"
    /\ frames = <<>>
    /\ writing = [c \in Conns |-> {}]
    /\ dash = InitialDashboard

(***************************************************************************)
(* Actions.                                                                *)
(***************************************************************************)
\* One call of UpdateStats; the mutex makes it atomic with respect to every
\* other holder of bm.mutex.
UpdateStats(srcMAC, dstMAC, srcIP, dstIP, packetSize) ==
    LET now == clock + 1 IN
    /\ devices' = UpdatedDevices(devices, srcMAC, dstMAC, srcIP, dstIP, packetSize, now)
    /\ clock' = now
    /\ calls' = calls + 1
    /\ sentSum' = [sentSum EXCEPT ![srcMAC] = @ + packetSize]
    /\ recvSum' = [recvSum EXCEPT ![dstMAC] = @ + packetSize]
    /\ sentCnt' = [sentCnt EXCEPT ![srcMAC] = @ + 1]
    /\ recvCnt' = [recvCnt EXCEPT ![dstMAC] = @ + 1]
    /\ scen' = ScenNext(scen, srcMAC, dstMAC, packetSize)
    /\ addrs' = Supplied(Supplied(addrs, srcMAC, srcIP), dstMAC, dstIP)
    /\ UNCHANGED removal
    /\ getdev' = IF getdev.pc = "encode" /\ getdev.mac \in DOMAIN devices'
                 THEN [getdev EXCEPT !.seen = @ \cup {devices'[getdev.mac]}]
                 ELSE getdev
    /\ UNCHANGED <<main, writing, dash, chanVars, wsVars>>

\* One firing of the ticker: take a snapshot, try to send it on the channel.
Tick ==
    \E order \in SortSlice(devices) :
        LET now == clock + 1
            stats == GetNetworkStats(devices, order, now)
        IN /\ clock' = now
           /\ broadcast' = TryPush(broadcast, stats)
           /\ lastPush' = PushOutcome(broadcast)
           /\ dropped' = IF PushOutcome(broadcast) = "default"
                         THEN dropped \cup {stats.Timestamp} ELSE dropped
           /\ produced' = produced + 1
           /\ UNCHANGED <<procVars, devices, histVars, getdev, wsVars>>

\* handleGetDevice up to the release of the read lock.
GetDeviceLookup(mac) ==
    /\ getdev.pc = "idle"
    /\ getdev' = Lookup(devices, mac)
    /\ UNCHANGED <<procVars, regVars, histVars, chanVars, wsVars>>

\* handleGetDevice: json.NewEncoder(w).Encode(device), one field at a time,
\* holding no lock.
GetDeviceEncode ==
    /\ getdev.pc = "encode"
    /\ getdev' = EncodeField(getdev, devices)
    /\ UNCHANGED <<procVars, regVars, histVars, chanVars, wsVars>>

(***************************************************************************)
(* handleWebSocket, one goroutine per connection.                          *)
(***************************************************************************)
\* upgrader.Upgrade: the connection is open, or the handler returns.
Upgrade(c) ==
    /\ hpc[c] = "new"
    /\ \E ok \in BOOLEAN :
         /\ conn' = [conn EXCEPT ![c] = IF ok THEN "open" ELSE "none"]
         /\ hpc' = [hpc EXCEPT ![c] = IF ok THEN "register" ELSE "returned"]
    /\ UNCHANGED <<procVars, regVars, histVars, chanVars, getdev, clients, mu, bcast, received, regAt>>

\* The first half of bm.clientsMu.Lock(), by a handler (before registering,
\* before deleting) or by the broadcaster (before deleting a failed client).
MuLock(p) ==
    /\ CanLock(mu)
    /\ IF p = Broadcaster THEN bcast.pc = "lock" ELSE hpc[p] \in {"register", "unregister"}
    /\ mu' = [mu EXCEPT !.writer = p]
    /\ IF p = Broadcaster
       THEN bcast' = [bcast EXCEPT !.pc = "locking"] /\ UNCHANGED hpc
       ELSE hpc' = [hpc EXCEPT ![p] = IF @ = "register" THEN "registering" ELSE "unregistering"]
            /\ UNCHANGED bcast
    /\ UNCHANGED <<procVars, regVars, histVars, chanVars, getdev, clients, conn, received, regAt>>

\* Lock returns, the map is changed, Unlock: the handler registers its
\* connection, or deletes it and returns (conn.Close is deferred); the
\* broadcaster deletes the client it failed to write to and goes on ranging.
LockedSection(p) ==
    /\ LockHeld(mu, p)
    /\ mu' = [mu EXCEPT !.writer = "none"]
    /\ IF p = Broadcaster
       THEN /\ clients' = Delete(clients, bcast.client)
            /\ bcast' = [bcast EXCEPT !.pc = "range", !.client = "none"]
            /\ UNCHANGED <<hpc, conn, regAt>>
       ELSE IF hpc[p] = "registering"
       THEN /\ clients' = Register(clients, p)
            /\ hpc' = [hpc EXCEPT ![p] = "initial"]
            /\ regAt' = [regAt EXCEPT ![p] = clock]
            /\ UNCHANGED <<bcast, conn>>
       ELSE /\ clients' = Delete(clients, p)
            /\ hpc' = [hpc EXCEPT ![p] = "returned"]
            /\ conn' = [conn EXCEPT ![p] = "closed"]
            /\ UNCHANGED <<bcast, regAt>>
    /\ UNCHANGED <<procVars, regVars, histVars, chanVars, getdev, received>>

\* "Send initial data": a fresh snapshot, written to the connection; an error
\* is logged and the handler goes on to its read loop.
SendInitial(c) ==
    /\ hpc[c] = "initial"
    /\ \E order \in SortSlice(devices) :
         LET now == clock + 1
             stats == GetNetworkStats(devices, order, now)
         IN /\ clock' = now
            /\ received' = IF WriteFails(conn[c]) THEN received
                            ELSE [received EXCEPT ![c] = Append(@, Delivery("initial", stats))]
    /\ hpc' = [hpc EXCEPT ![c] = "read"]
    /\ UNCHANGED <<procVars, devices, histVars, chanVars, getdev, clients, mu, conn, bcast, regAt>>

\* conn.ReadMessage returns an error: the connection is no longer open.
ReadError(c) ==
    /\ hpc[c] = "read"
    /\ conn[c] # "open"
    /\ hpc' = [hpc EXCEPT ![c] = "unregister"]
    /\ UNCHANGED <<procVars, regVars, histVars, chanVars, getdev, clients, mu, conn, bcast, received, regAt>>

\* The peer goes away.
Disconnect(c) ==
    /\ conn[c] = "open"
    /\ conn' = [conn EXCEPT ![c] = "broken"]
    /\ UNCHANGED <<procVars, regVars, histVars, chanVars, getdev, clients, mu, hpc, bcast, received, regAt>>

(***************************************************************************)
(* broadcastStats.                                                         *)
(***************************************************************************)
\* for stats := range bm.broadcast: receive the oldest snapshot.
BcastRecv ==
    /\ bcast.pc = "recv"
    /\ broadcast # <<>>
    /\ bcast' = [bcast EXCEPT !.pc = "rlock", !.stats = Head(broadcast)]
    /\ broadcast' = Tail(broadcast)
    /\ UNCHANGED <<procVars, regVars, histVars, produced, lastPush, dropped, getdev, clients, mu, conn, hpc,
                   received, regAt>>

\* bm.clientsMu.RLock(); the range then visits the clients of the map.
BcastRLock ==
    /\ bcast.pc = "rlock"
    /\ CanRLock(mu)
    /\ mu' = [mu EXCEPT !.readers = @ \cup {Broadcaster}]
    /\ bcast' = [bcast EXCEPT !.pc = "range", !.remaining = clients]
    /\ UNCHANGED <<procVars, regVars, histVars, chanVars, getdev, clients, conn, hpc, received, regAt>>

\* One iteration of the range: client.WriteJSON(stats); on an error the
\* client is closed and the broadcaster calls Lock.
BcastWrite(c) ==
    /\ bcast.pc = "range"
    /\ c \in bcast.remaining
    /\ c \in clients
    /\ IF WriteFails(conn[c])
       THEN /\ conn' = [conn EXCEPT ![c] = "closed"]
            /\ bcast' = [bcast EXCEPT !.pc = "lock", !.client = c, !.remaining = @ \ {c}]
            /\ UNCHANGED received
       ELSE /\ received' = [received EXCEPT ![c] = Append(@, Delivery("broadcast", bcast.stats))]
            /\ bcast' = [bcast EXCEPT !.remaining = @ \ {c}]
            /\ UNCHANGED conn
    /\ UNCHANGED <<procVars, regVars, histVars, chanVars, getdev, clients, mu, hpc, regAt>>

\* The range is over: bm.clientsMu.RUnlock(), back to the channel.
BcastRUnlock ==
    /\ bcast.pc = "range"
    /\ bcast.remaining \cap clients = {}
    /\ mu' = [mu EXCEPT !.readers = @ \ {Broadcaster}]
    /\ bcast' = [bcast EXCEPT !.pc = "recv", !.stats = NoStats, !.remaining = {}]
    /\ UNCHANGED <<procVars, regVars, histVars, chanVars, getdev, clients, conn, hpc, received, regAt>>

(***************************************************************************)
(* WriteJSON as a call that takes time: it begins, and later returns.      *)
(* (Connections stay open here, so no write fails.)                        *)
(***************************************************************************)
\* "Send initial data": the handler takes its snapshot and enters
\* conn.WriteJSON(stats), holding no lock.
InitialBegin(c) ==
    /\ hpc[c] = "initial"
    /\ \E order \in SortSlice(devices) :
         LET now == clock + 1
             stats == GetNetworkStats(devices, order, now)
         IN /\ clock' = now
            /\ writing' = [writing EXCEPT ![c] = @ \cup {Write(c, stats)}]
    /\ hpc' = [hpc EXCEPT ![c] = "writing"]
    /\ UNCHANGED <<main, capVars, dash, devices, histVars, chanVars, getdev, clients, mu, conn,
                   bcast, received, regAt>>

\* The handler's WriteJSON returns; the handler goes on to its read loop.
InitialEnd(c) ==
    /\ hpc[c] = "writing"
    /\ \E w \in writing[c] :
         /\ w.by = c
         /\ writing' = [writing EXCEPT ![c] = @ \ {w}]
         /\ received' = [received EXCEPT ![c] = Append(@, Delivery("initial", w.stats))]
    /\ hpc' = [hpc EXCEPT ![c] = "read"]
    /\ UNCHANGED <<main, capVars, dash, regVars, histVars, chanVars, getdev, clients, mu, conn,
                   bcast, regAt>>

\* The broadcaster, ranging under the read lock, enters client.WriteJSON(stats).
BcastWriteBegin(c) ==
    /\ bcast.pc = "range"
    /\ c \in bcast.remaining
    /\ c \in clients
    /\ writing' = [writing EXCEPT ![c] = @ \cup {Write(Broadcaster, bcast.stats)}]
    /\ bcast' = [bcast EXCEPT !.pc = "writing", !.client = c]
    /\ UNCHANGED <<main, capVars, dash, regVars, histVars, chanVars, getdev, clients, mu, conn,
                   hpc, received, regAt>>

\* The broadcaster's WriteJSON returns; the range goes on.
BcastWriteEnd ==
    /\ bcast.pc = "writing"
    /\ writing' = [writing EXCEPT ![bcast.client] = @ \ {Write(Broadcaster, bcast.stats)}]
    /\ received' = [received EXCEPT ![bcast.client] =
                       Append(@, Delivery("broadcast", bcast.stats))]
    /\ bcast' = [bcast EXCEPT !.pc = "range", !.client = "none",
                              !.remaining = @ \ {bcast.client}]
    /\ UNCHANGED <<main, capVars, dash, regVars, histVars, chanVars, getdev, clients, mu, conn,
                   hpc, regAt>>

(***************************************************************************)
(* The operations on bm.clients taken by themselves: the three critical    *)
(* sections of clientsMu, each run to its end, for any connection.         *)
(***************************************************************************)
\* Lock; bm.clients[conn] = true; Unlock, for a connection not seen before.
AddClient(c) ==
    /\ regAt[c] = -1
    /\ clients' = Register(clients, c)
    /\ regAt' = [regAt EXCEPT ![c] = clock]
    /\ UNCHANGED <<procVars, regVars, histVars, chanVars, getdev, mu, conn, hpc, bcast, received>>

\* Lock; delete(bm.clients, c); Unlock, whether or not c is a key of the map.
RemoveClient(c) ==
    /\ removal.n < MaxRemovals
    /\ clients' = Delete(clients, c)
    /\ removal' = [n |-> removal.n + 1, client |-> c, present |-> c \in clients,
                   at |-> clock]
    /\ UNCHANGED <<procVars, regVars, calls, sentSum, recvSum, sentCnt, recvCnt, scen, addrs,
                   chanVars, getdev, mu, conn, hpc, bcast, received, regAt>>

\* RLock; a snapshot is written to every client of the map, no write
\* failing; RUnlock.
BroadcastPass ==
    /\ clock < MaxPasses
    /\ \E order \in SortSlice(devices) :
         LET now == clock + 1
             stats == GetNetworkStats(devices, order, now)
         IN /\ clock' = now
            /\ received' = [d \in Conns |->
                              IF d \in clients
                              THEN Append(received[d], Delivery("broadcast", stats))
                              ELSE received[d]]
    /\ UNCHANGED <<procVars, devices, histVars, chanVars, getdev, clients, mu, conn, hpc, bcast, regAt>>

(***************************************************************************)
(* main: graceful shutdown.                                                *)
(***************************************************************************)
\* <-sigChan returns: main goes on to server.Shutdown(ctx).
Signal ==
    /\ main = "serving"
    /\ main' = "shutdown"
    /\ UNCHANGED <<capVars, writing, dash, regVars, histVars, chanVars, getdev, wsVars>>

\* server.Shutdown returns and main returns: the process, and every goroutine
\* with it, ends.  Nothing closes bm.broadcast or stops the ticker before.
Exit ==
    /\ main = "shutdown"
    /\ main' = "exited"
    /\ UNCHANGED <<capVars, writing, dash, regVars, histVars, chanVars, getdev, wsVars>>

(***************************************************************************)
(* main: the packet capture goroutine.                                     *)
(***************************************************************************)
\* srcMAC with a default station for a packet that has no Ethernet layer.
SrcMACDefault(packet) == IF packet.eth # NoLayer THEN packet.eth.src ELSE MacA

\* The strings the loop body extracts: "" unless the layer is there.
SrcMAC(packet) == IF packet.eth # NoLayer THEN packet.eth.src ELSE ""
DstMAC(packet) == IF packet.eth # NoLayer THEN packet.eth.dst ELSE ""
SrcIP(packet) == IF packet.ipv4 # NoLayer THEN packet.ipv4.src ELSE ""
DstIP(packet) == IF packet.ipv4 # NoLayer THEN packet.ipv4.dst ELSE ""

\* One iteration of for packet := range packets: the packet is received, its
\* addresses are extracted and UpdateStats is called with them.
CaptureStep(packet) ==
    /\ capture = "ranging"
    /\ UpdateStats(SrcMAC(packet), DstMAC(packet), SrcIP(packet), DstIP(packet), packet.len)
    /\ frames' = Append(frames, packet)
    /\ UNCHANGED capture

\* The capture source is exhausted or has failed: packets is closed, the
\* range ends and the goroutine returns.
CaptureEnd ==
    /\ capture = "ranging"
    /\ capture' = "ended"
    /\ UNCHANGED <<main, frames, writing, dash, regVars, histVars, chanVars, getdev, wsVars>>

(***************************************************************************)
(* The Dashboard component: its effect, the events of its sockets and its  *)
(* timers.  Each handler runs to completion.                               *)
(***************************************************************************)
\* The effect runs once wsUrl is set: connectWebSocket().  wsUrl goes from ''
\* to the URL once, and the run with '' returns before defining a cleanup, so
\* the body runs once per component instance.
DashMount ==
    /\ dash.effect = "idle"
    /\ \E throws \in BOOLEAN :
         dash' = ConnectWebSocket([dash EXCEPT !.effect = "mounted"], throws)
    /\ UNCHANGED backendVars

\* The connection of socket i is established: its open event.
SocketOpens(i) ==
    /\ dash.sockets[i].rs = "connecting"
    /\ dash' = OnOpen([dash EXCEPT !.sockets[i].rs = "open"])
    /\ UNCHANGED backendVars

\* The connection of socket i fails or is lost: an error event and a close
\* event are to be dispatched.
SocketFails(i) ==
    /\ dash.sockets[i].rs \in {"connecting", "open"}
    /\ dash' = [dash EXCEPT !.sockets[i] = [rs |-> "closing", error |-> "queued"]]
    /\ UNCHANGED backendVars

\* The server closes the connection of socket i: a close event is to be
\* dispatched.
SocketCloses(i) ==
    /\ dash.sockets[i].rs = "open"
    /\ dash' = [dash EXCEPT !.sockets[i].rs = "closing"]
    /\ UNCHANGED backendVars

\* The error event of socket i is dispatched.
DispatchError(i) ==
    /\ dash.sockets[i].error = "queued"
    /\ dash' = OnError([dash EXCEPT !.sockets[i].error = "fired"])
    /\ UNCHANGED backendVars

\* The close event of socket i is dispatched, after its error event if any.
DispatchClose(i) ==
    /\ dash.sockets[i].rs = "closing"
    /\ dash.sockets[i].error # "queued"
    /\ dash' = OnClose([dash EXCEPT !.sockets[i].rs = "closed"])
    /\ UNCHANGED backendVars

\* The pending timeout t fires.
TimerFires(t) ==
    /\ t \in dash.timers
    /\ \E throws \in BOOLEAN :
         dash' = TimerCallback([dash EXCEPT !.timers = @ \ {t}], throws)
    /\ UNCHANGED backendVars

\* The component unmounts: the effect's cleanup runs.
DashCleanup ==
    /\ dash.effect = "mounted"
    /\ dash' = Cleanup(dash)
    /\ UNCHANGED backendVars

\* UpdateStats with any arguments.
AnyUpdateStats ==
    \E srcMAC \in MACs, dstMAC \in MACs, ips \in IPPairs, packetSize \in Sizes :
        /\ UpdateStats(srcMAC, dstMAC, ips[1], ips[2], packetSize)
        /\ UNCHANGED capVars

\* UpdateStats for frames without an IPv4 layer, of an everyday length.
PlainUpdateStats ==
    \E srcMAC \in MACs, dstMAC \in MACs, packetSize \in {64, 128, 1500} :
        /\ UpdateStats(srcMAC, dstMAC, "", "", packetSize)
        /\ UNCHANGED capVars

\* UpdateStats for frames without an IPv4 layer, short or of the largest length.
WideUpdateStats ==
    \E srcMAC \in MACs, dstMAC \in MACs, packetSize \in {64, MaxUint64} :
        /\ UpdateStats(srcMAC, dstMAC, "", "", packetSize)
        /\ UNCHANGED capVars

\* UpdateStats for frames among three stations and the broadcast address.
FrameUpdateStats ==
    \E srcMAC \in FrameMACs, dstMAC \in FrameMACs, packetSize \in {64, 1500} :
        /\ UpdateStats(srcMAC, dstMAC, "", "", packetSize)
        /\ UNCHANGED capVars

(***************************************************************************)
(* Spec: the device registry under any sequence of UpdateStats calls.      *)
(***************************************************************************)
Next == calls < MaxCalls /\ AnyUpdateStats

Spec == Init /\ [][Next]_vars

(***************************************************************************)
(* SpecScenario: the registry under sequences of everyday frames.          *)
(***************************************************************************)
ScenarioNext == calls < MaxFrames /\ PlainUpdateStats

SpecScenario == Init /\ [][ScenarioNext]_vars

(***************************************************************************)
(* SpecFrame: the registry of three stations, one frame at a time.         *)
(***************************************************************************)
FrameNext == calls < MaxFrameCalls /\ FrameUpdateStats

SpecFrame == Init /\ [][FrameNext]_vars

(***************************************************************************)
(* SpecCapture: the capture goroutine beside the ticker and main.          *)
(***************************************************************************)
CaptureNext ==
    \/ (Len(frames) < MaxCaptured /\ \E packet \in Packets : CaptureStep(packet))
    \/ CaptureEnd
    \/ (main # "exited" /\ produced < MaxCapTicks /\ Tick)
    \/ Signal
    \/ Exit

SpecCapture == Init /\ [][CaptureNext]_vars

\* The ticker fires; when the capture source ends and whether a signal
\* arrives is up to the environment.
FairCapture ==
    /\ SpecCapture
    /\ WF_vars(main # "exited" /\ produced < MaxCapTicks /\ Tick)

(***************************************************************************)
(* SpecSnapshot: UpdateStats calls interleaved with the ticker's snapshots.*)
(***************************************************************************)
SnapshotNext ==
    \/ (calls < MaxSnapCalls /\ WideUpdateStats)
    \/ (produced < MaxSnapTicks /\ Tick)

SpecSnapshot == Init /\ [][SnapshotNext]_vars

(***************************************************************************)
(* SpecLookup: one handleGetDevice request running beside UpdateStats.     *)
(***************************************************************************)
LookupNext ==
    \/ (calls < MaxLookupCalls /\ PlainUpdateStats)
    \/ \E mac \in Keys : GetDeviceLookup(mac)
    \/ GetDeviceEncode

SpecLookup == Init /\ [][LookupNext]_vars

(***************************************************************************)
(* SpecBroadcast: the ticker, the broadcaster and the connection handlers. *)
(***************************************************************************)
\* A step of the handleWebSocket goroutine of connection c.
HandlerStep(c) ==
    \/ MuLock(c)
    \/ LockedSection(c)
    \/ SendInitial(c)
    \/ ReadError(c)

\* A step of the broadcastStats goroutine.
BroadcasterStep ==
    \/ BcastRecv
    \/ BcastRLock
    \/ \E c \in Conns : BcastWrite(c)
    \/ BcastRUnlock
    \/ MuLock(Broadcaster)
    \/ LockedSection(Broadcaster)

BroadcastNext ==
    \/ (produced < MaxBcastTicks /\ Tick)
    \/ \E c \in Conns : Upgrade(c) \/ Disconnect(c) \/ HandlerStep(c)
    \/ BroadcasterStep

SpecBroadcast == Init /\ [][BroadcastNext]_vars

\* The Go scheduler runs every goroutine that can run; the ticker fires.
FairBroadcast ==
    /\ SpecBroadcast
    /\ WF_vars(BroadcasterStep)
    /\ \A c \in Conns : WF_vars(HandlerStep(c))
    /\ WF_vars(produced < MaxBcastTicks /\ Tick)

(***************************************************************************)
(* SpecWrites: connections arriving while the broadcaster broadcasts, with *)
(* every WriteJSON a call that begins and returns.                         *)
(***************************************************************************)
WritesNext ==
    \/ (produced < MaxWriteTicks /\ Tick)
    \/ \E c \in Conns : Upgrade(c)
    \/ \E c \in Conns : MuLock(c)
    \/ \E c \in Conns : LockedSection(c)
    \/ \E c \in Conns : InitialBegin(c)
    \/ \E c \in Conns : InitialEnd(c)
    \/ BcastRecv
    \/ BcastRLock
    \/ \E c \in Conns : BcastWriteBegin(c)
    \/ BcastWriteEnd
    \/ BcastRUnlock

SpecWrites == Init /\ [][WritesNext]_vars

(***************************************************************************)
(* SpecDashboard: the Dashboard component and its WebSockets.              *)
(***************************************************************************)
\* The sockets created so far.
Sockets == DOMAIN dash.sockets

\* The browser dispatches an event or runs a due timeout.
EventLoop ==
    \/ \E i \in Sockets : DispatchError(i)
    \/ \E i \in Sockets : DispatchClose(i)
    \/ (dash.attempts < MaxAttempts /\ \E t \in dash.timers : TimerFires(t))

DashboardNext ==
    \/ DashMount
    \/ \E i \in Sockets : SocketOpens(i)
    \/ \E i \in Sockets : SocketFails(i)
    \/ \E i \in Sockets : SocketCloses(i)
    \/ EventLoop
    \/ DashCleanup

SpecDashboard == Init /\ [][DashboardNext]_vars

\* The browser's event loop runs whatever is due; the effect runs once the
\* component has rendered with its URL.
FairDashboard ==
    /\ SpecDashboard
    /\ WF_vars(EventLoop)
    /\ WF_vars(DashMount)

(***************************************************************************)
(* SpecQueue: the ticker outrunning a broadcaster that serves no client.   *)
(***************************************************************************)
QueueNext ==
    \/ (produced < MaxQueueTicks /\ Tick)
    \/ (broadcast # <<>> /\ Head(broadcast).Timestamp <= MaxQueuePops /\ BcastRecv)
    \/ BcastRLock
    \/ BcastRUnlock

SpecQueue == Init /\ [][QueueNext]_vars

(***************************************************************************)
(* SpecClients: registrations, removals and broadcasts in any order.       *)
(***************************************************************************)
ClientsNext ==
    \/ \E c \in Conns : AddClient(c)
    \/ \E c \in Conns : RemoveClient(c)
    \/ BroadcastPass

SpecClients == Init /\ [][ClientsNext]_vars

(***************************************************************************)
(* SpecShutdown: the goroutines of SpecBroadcast while main waits for the  *)
(* signal, shuts the server down and returns.  The server accepts no       *)
(* connection once Shutdown has been called; goroutines run until the      *)
(* process has exited.                                                     *)
(***************************************************************************)
ShutdownNext ==
    \/ Signal
    \/ Exit
    \/ (main # "exited" /\ produced < MaxShutTicks /\ Tick)
    \/ \E c \in Conns : (main = "serving" /\ Upgrade(c))
    \/ \E c \in Conns : (main # "exited" /\ (Disconnect(c) \/ HandlerStep(c)))
    \/ (main # "exited" /\ BroadcasterStep)

SpecShutdown == Init /\ [][ShutdownNext]_vars

(***************************************************************************)
(* Properties of the device registry.                                      *)
(***************************************************************************)
\* The hardware addresses a record can exist for.
Devs == {m \in MACs : m # "" /\ m # Broadcast}

\* The value of a counter of device m, 0 while the device has no record.
Counter(m, field) == IF m \in DOMAIN devices THEN devices[m][field] ELSE 0

\* C3 as stated: each device's bytesSent is the sum of the frame sizes of the
\* calls it was the source of, and its bytesReceived the sum over the calls
\* it was the destination of.
C3_BytesAreExactSums ==
    \A m \in Devs :
        /\ Counter(m, "BytesSent") = sentSum[m]
        /\ Counter(m, "BytesRecv") = recvSum[m]

\* C3 amended: each device's bytesSent and bytesReceived are those sums in
\* uint64 arithmetic, that is, modulo the word size.
C3_BytesAreSumsMod ==
    \A m \in Devs :
        /\ Counter(m, "BytesSent") = sentSum[m] % Uint64Mod
        /\ Counter(m, "BytesRecv") = recvSum[m] % Uint64Mod

\* A device was the source of two calls whose sizes add up past the word size,
\* and the destination of a call.
C3_Witness ==
    \E m \in Devs :
        /\ m \in DOMAIN devices
        /\ sentCnt[m] = 2
        /\ sentSum[m] > MaxUint64
        /\ recvSum[m] > 0

\* C4: each device's packetsSent is the number of calls it was the source of
\* and its packetsReceived the number of calls it was the destination of;
\* after exactly the three frames of scenario A the registry holds A with
\* 2 sent, 1 received, 192 bytes sent, 1500 received and B with 1 sent,
\* 1 received, 1500 bytes sent, 64 received, and no other record.
C4_PacketCounts ==
    /\ \A m \in Devs :
        /\ Counter(m, "PacketsSent") = sentCnt[m]
        /\ Counter(m, "PacketsRecv") = recvCnt[m]
    /\ scen = Len(ScenarioA) =>
        /\ DOMAIN devices = {MacA, MacB}
        /\ devices[MacA].PacketsSent = 2 /\ devices[MacA].PacketsRecv = 1
        /\ devices[MacA].BytesSent = 192 /\ devices[MacA].BytesRecv = 1500
        /\ devices[MacB].PacketsSent = 1 /\ devices[MacB].PacketsRecv = 1
        /\ devices[MacB].BytesSent = 1500 /\ devices[MacB].BytesRecv = 64

\* The three frames of scenario A, and nothing else, have been attributed.
C4_Witness == scen = Len(ScenarioA) /\ calls = 3

\* C5: neither the broadcast address nor the empty identity is a key of the
\* registry.
C5_NoBroadcastNoEmptyKey ==
    /\ Broadcast \notin DOMAIN devices
    /\ "" \notin DOMAIN devices

\* Both the broadcast address and the empty identity have been passed as
\* source and as destination.
C5_Witness ==
    /\ sentCnt[Broadcast] > 0 /\ recvCnt[Broadcast] > 0
    /\ sentCnt[""] > 0 /\ recvCnt[""] > 0

\* The first non-empty address supplied for m, "" when there has been none.
FirstAddress(m) == IF addrs[m] = <<>> THEN "" ELSE Head(addrs[m])

\* C11: a device record's IP is the first non-empty address supplied for its
\* MAC, as source or as destination, and once it is not empty no UpdateStats
\* call changes it, whatever address the call supplies.
C11_AddressFirstWins ==
    /\ [](\A m \in Devs : m \in DOMAIN devices => devices[m].IP = FirstAddress(m))
    /\ [][\A m \in DOMAIN devices :
             devices[m].IP # "" =>
                 m \in DOMAIN devices' /\ devices'[m].IP = devices[m].IP]_vars

\* A device whose record holds an address has since been supplied a
\* different one.
C11_Witness ==
    \E m \in Devs :
        /\ m \in DOMAIN devices
        /\ Len(addrs[m]) >= 2
        /\ addrs[m][2] # addrs[m][1]
        /\ devices[m].IP = addrs[m][1]

\* The MAC m has been the non-empty, non-broadcast source or destination of
\* an UpdateStats call.
Appeared(m) == m \in Devs /\ sentCnt[m] + recvCnt[m] > 0

\* C19: the registry holds a record for exactly the MACs that have appeared
\* as a non-empty, non-broadcast source or destination; no step removes a
\* key; and a lookup finds no device exactly when the MAC it asks for has
\* not appeared.
C19_RecordsOnlyAdded ==
    /\ [](DOMAIN devices = {m \in MACs : Appeared(m)})
    /\ [][DOMAIN devices \subseteq DOMAIN devices']_vars
    /\ [][(getdev.pc = "idle" /\ getdev'.pc # "idle") =>
            ((getdev'.pc = "done" /\ getdev'.status = 404) <=> ~Appeared(getdev'.mac))]_vars

\* After two calls the registry holds a record, and a lookup of a MAC that
\* has never appeared has reported not found.
C19_Witness ==
    /\ calls = 2
    /\ DOMAIN devices # {}
    /\ getdev.pc = "done"
    /\ getdev.status = 404
    /\ getdev.mac \in Devs
    /\ ~Appeared(getdev.mac)

\* C20 as stated: no UpdateStats call leaves BytesSent, BytesRecv,
\* PacketsSent or PacketsRecv of a device smaller than it was.
C20_CountersNeverDecrease ==
    [][\A m \in DOMAIN devices :
         /\ devices'[m].BytesSent >= devices[m].BytesSent
         /\ devices'[m].BytesRecv >= devices[m].BytesRecv
         /\ devices'[m].PacketsSent >= devices[m].PacketsSent
         /\ devices'[m].PacketsRecv >= devices[m].PacketsRecv]_vars

\* C20 amended: a call leaves each byte counter at its old value plus the
\* bytes the call adds, in uint64 arithmetic, so the counter does not
\* decrease exactly when that sum fits the word and wraps to a smaller value
\* otherwise; the packet counters do not decrease.
C20_CountersWrap ==
    [][\A m \in Devs :
         LET sent == sentSum'[m] - sentSum[m]
             recv == recvSum'[m] - recvSum[m]
         IN /\ Counter(m, "BytesSent")' = (Counter(m, "BytesSent") + sent) % Uint64Mod
            /\ Counter(m, "BytesRecv")' = (Counter(m, "BytesRecv") + recv) % Uint64Mod
            /\ (Counter(m, "BytesSent")' >= Counter(m, "BytesSent"))
                  <=> (Counter(m, "BytesSent") + sent <= MaxUint64)
            /\ (Counter(m, "BytesRecv")' >= Counter(m, "BytesRecv"))
                  <=> (Counter(m, "BytesRecv") + recv <= MaxUint64)
            /\ Counter(m, "PacketsSent")' >= Counter(m, "PacketsSent")
            /\ Counter(m, "PacketsRecv")' >= Counter(m, "PacketsRecv")]_vars

\* A device has been the destination of two calls, the second of which took
\* its bytes received past the word size.
C20_Witness ==
    \E m \in Devs :
        /\ m \in DOMAIN devices
        /\ devices[m].PacketsRecv = 2
        /\ recvSum[m] > MaxUint64
        /\ devices[m].BytesRecv < 1500

\* The keys whose record the step creates or changes.
Changed == {k \in DOMAIN devices' : k \notin DOMAIN devices \/ devices'[k] # devices[k]}

\* The step is an UpdateStats call with source s, with destination d.
IsSource(s) == sentCnt'[s] = sentCnt[s] + 1
IsDest(d) == recvCnt'[d] = recvCnt[d] + 1

\* C21: an UpdateStats call creates or changes at most two records, and only
\* those of its source and its destination; every other record stays as it
\* was; a call whose source and destination are the same station changes
\* that one record, adding one packet and the frame's bytes to both its sent
\* and its received counters.
C21_AtMostTwoRecords ==
    [][/\ Cardinality(Changed) <= 2
       /\ \A k \in Changed : IsSource(k) \/ IsDest(k)
       /\ DOMAIN devices \subseteq DOMAIN devices'
       /\ \A m \in FrameMACs \ {Broadcast} :
             (IsSource(m) /\ IsDest(m)) =>
                /\ Changed = {m}
                /\ devices'[m].PacketsSent = Add64(Counter(m, "PacketsSent"), 1)
                /\ devices'[m].PacketsRecv = Add64(Counter(m, "PacketsRecv"), 1)
                /\ devices'[m].BytesSent =
                      Add64(Counter(m, "BytesSent"), sentSum'[m] - sentSum[m])
                /\ devices'[m].BytesRecv =
                      Add64(Counter(m, "BytesRecv"), sentSum'[m] - sentSum[m])]_vars

\* Two stations have a record from one call, and a second call with a third
\* station as both source and destination has created the third record.
C21_Witness ==
    /\ calls = 2
    /\ Cardinality(DOMAIN devices) = 3
    /\ \E m \in DOMAIN devices :
          /\ sentCnt[m] = 1 /\ recvCnt[m] = 1
          /\ devices[m].LastSeen = clock
          /\ \A k \in DOMAIN devices \ {m} : devices[k].LastSeen < clock

\* C7: the record a device lookup returns is the record as it was at one
\* instant between UpdateStats calls: one of the values the record has had
\* since the lookup.
C7_LookupIsConsistent ==
    (getdev.pc = "done" /\ getdev.status = 200) => getdev.out \in getdev.seen

(***************************************************************************)
(* Properties of snapshots.                                                *)
(***************************************************************************)
\* What a reader of snapshot s sees, given the registry.
SnapshotView(s, devs) ==
    [s EXCEPT !.Devices = [i \in DOMAIN s.Devices |-> Deref(s.Devices[i], devs)]]

\* The device records of snapshot s as its holder reads them now.
Records(s) == SnapshotView(s, devices).Devices

RECURSIVE SeqSum(_, _)
SeqSum(f, n) == IF n = 0 THEN 0 ELSE f[n] + SeqSum(f, n - 1)

\* The exact sums of the counters over the device records of a snapshot.
TotalBytesSent(s) == SeqSum([i \in DOMAIN Records(s) |-> Records(s)[i].BytesSent], Len(Records(s)))
TotalBytesRecv(s) == SeqSum([i \in DOMAIN Records(s) |-> Records(s)[i].BytesRecv], Len(Records(s)))
TotalPacketsOf(s) ==
    SeqSum([i \in DOMAIN Records(s) |-> Records(s)[i].PacketsSent + Records(s)[i].PacketsRecv],
           Len(Records(s)))

\* The exact bytesSent+bytesReceived of a device record.
BandwidthOf(r) == r.BytesSent + r.BytesRecv

\* The snapshots in existence: those waiting in the broadcast channel.
Snapshots == {broadcast[i] : i \in DOMAIN broadcast}

\* C8: an UpdateStats call changes nothing a holder of an already created
\* snapshot reads: its device records and totals stay what they were.
C8_SnapshotUnaffected ==
    [][devices' # devices =>
         \A i \in DOMAIN broadcast :
             /\ i \in DOMAIN broadcast'
             /\ SnapshotView(broadcast'[i], devices') = SnapshotView(broadcast[i], devices)]_vars

\* A snapshot waits in the channel and a device in it has been updated since.
C8_Witness ==
    \E s \in Snapshots : \E i \in DOMAIN s.Devices :
        s.Devices[i].key \in DOMAIN devices
        /\ Records(s)[i].MAC = s.Devices[i].key
        /\ devices[s.Devices[i].key].LastSeen > s.Timestamp

\* C9 as stated: in every snapshot the totals are the sums over its devices
\* and activeDevices is their number.
C9_TotalsAreExactSums ==
    \A s \in Snapshots :
        /\ s.TotalSent = TotalBytesSent(s)
        /\ s.TotalRecv = TotalBytesRecv(s)
        /\ s.TotalPackets = TotalPacketsOf(s)
        /\ s.ActiveDevices = Len(s.Devices)

\* C9 amended: the totals are those sums in uint64 arithmetic.
C9_TotalsAreSumsMod ==
    \A s \in Snapshots :
        /\ s.TotalSent = TotalBytesSent(s) % Uint64Mod
        /\ s.TotalRecv = TotalBytesRecv(s) % Uint64Mod
        /\ s.TotalPackets = TotalPacketsOf(s) % Uint64Mod
        /\ s.ActiveDevices = Len(s.Devices)

\* A snapshot of two devices whose bytes sent add up past the word size.
C9_Witness ==
    \E s \in Snapshots :
        /\ Len(s.Devices) = 2
        /\ TotalBytesSent(s) > MaxUint64
        /\ TotalPacketsOf(s) > 2

\* C10 as stated: in every snapshot bytesSent+bytesReceived does not increase
\* from one device to the next.
C10_OrderedByExactBandwidth ==
    \A s \in Snapshots : \A i, j \in DOMAIN s.Devices :
        i < j => BandwidthOf(Records(s)[i]) >= BandwidthOf(Records(s)[j])

\* C10 amended: in every snapshot bytesSent+bytesReceived, computed in uint64
\* arithmetic, does not increase from one device to the next.
C10_OrderedByBandwidthMod ==
    \A s \in Snapshots : \A i, j \in DOMAIN s.Devices :
        i < j => BandwidthOf(Records(s)[i]) % Uint64Mod
                    >= BandwidthOf(Records(s)[j]) % Uint64Mod

\* A snapshot of two devices of different bandwidth, one of them past the
\* word size.
C10_Witness ==
    \E s \in Snapshots :
        /\ Len(s.Devices) = 2
        /\ BandwidthOf(Records(s)[1]) % Uint64Mod > BandwidthOf(Records(s)[2]) % Uint64Mod
        /\ BandwidthOf(Records(s)[2]) > MaxUint64

(***************************************************************************)
(* Properties of the broadcast channel and of the broadcast.               *)
(***************************************************************************)
\* The timestamps a snapshot can carry.
Timestamps == 1..(MaxBcastTicks + Cardinality(Conns))

\* Connection c has been delivered the snapshot taken at time t.
Got(c, t) == \E i \in DOMAIN received[c] : received[c][i].stats.Timestamp = t

\* The broadcaster's write to c has failed and it has not yet deleted c.
FailedOn(c) == bcast.pc \in {"lock", "locking"} /\ bcast.client = c

\* C1: when the delivery of a snapshot to one subscriber fails during a
\* broadcast, the failing subscriber is removed from the registry, and every
\* other registered subscriber whose connection stays open is delivered that
\* snapshot.
C1_FailureIsLocal ==
    /\ \A c \in Conns : FailedOn(c) ~> (c \notin clients)
    /\ \A c \in Conns : \A d \in Conns \ {c} : \A t \in Timestamps :
          (FailedOn(c) /\ bcast.stats.Timestamp = t /\ d \in bcast.remaining)
              ~> (Got(d, t) \/ conn[d] # "open")

\* C2: every snapshot a subscriber receives was produced after the
\* subscriber was registered, and the first one it receives, and only the
\* first, is the snapshot its handler took on connect.
C2_OnlyFreshSnapshots ==
    \A c \in Conns : \A i \in DOMAIN received[c] :
        /\ received[c][i].stats.Timestamp > regAt[c]
        /\ (received[c][i].kind = "initial") <=> (i = 1)

\* C6: a tick that finds the channel full leaves the channel as it was and
\* takes the default branch (the snapshot is dropped); the ticker's select
\* can always run.
C6_FullQueueDrops ==
    /\ [](ENABLED Tick)
    /\ [][(produced' = produced + 1 /\ Len(broadcast) = BroadcastCap) =>
            (broadcast' = broadcast /\ lastPush' = "default")]_vars

\* The ticker has found the channel full, after the broadcaster had taken
\* snapshots out of it.
C6_Witness ==
    /\ lastPush = "default"
    /\ Len(broadcast) = BroadcastCap
    /\ Head(broadcast).Timestamp > 1

C13_DeliveredInCreationOrder ==
    \A c \in Conns : \A i, j \in DOMAIN received[c] :
        i < j => received[c][i].stats.Timestamp <= received[c][j].stats.Timestamp

\* The handler of c has registered c and is past its initial WriteJSON.
PastInitial(c) ==
    regAt[c] >= 0 /\ hpc[c] \in {"read", "unregister", "unregistering", "returned"}

\* C14: every connection that has been upgraded is eventually registered and
\* sent its initial snapshot, whatever the broadcaster is doing and whatever
\* deliveries have failed before.
C14_EventuallyRegistered ==
    \A c \in Conns : (hpc[c] = "register") ~> PastInitial(c)

\* The broadcaster is at client.WriteJSON(stats) for a client of its range.
Delivering == bcast.pc = "range" /\ bcast.remaining \cap clients # {}

\* C15: the lock guarding the subscriber set is not held while a snapshot is
\* being written to a subscriber, so a write that blocks keeps no handler
\* from registering or removing its connection.
C15_LockFreeDuringDelivery ==
    Delivering => (Broadcaster \notin mu.readers /\ mu.writer # Broadcaster)

\* C18: a registered subscriber whose connection has closed, or whose read
\* has failed, is eventually out of bm.clients, wherever the broadcaster
\* stands.
C18_ClosedIsRemoved ==
    \A c \in Conns : (c \in clients /\ conn[c] # "open") ~> (c \notin clients)

\* The broadcaster is inside clientsMu.Lock().
AwaitsLock == bcast.pc \in {"lock", "locking"}

\* C24: the broadcaster never waits for clientsMu for ever, and every
\* snapshot on the broadcast channel is eventually taken off it by the
\* broadcaster.
C24_BroadcasterNeverStuck ==
    /\ AwaitsLock ~> ~AwaitsLock
    /\ \A t \in Timestamps :
          (\E i \in DOMAIN broadcast : broadcast[i].Timestamp = t)
              ~> (bcast.stats.Timestamp = t)

\* C25: at no time is more than one WriteJSON call in progress on a
\* connection: the handler's initial write and a broadcast write to the
\* same connection do not overlap.
C25_SingleWriter ==
    \A c \in Conns : Cardinality(writing[c]) <= 1

(***************************************************************************)
(* Properties of the shutdown.                                             *)
(***************************************************************************)
\* The broadcast snapshots among the deliveries to c.
Broadcasts(c) == SelectSeq(received[c], LAMBDA d : d.kind = "broadcast")

\* C16: once shutdown has begun no snapshot is put on the broadcast channel
\* and none is broadcast to a subscriber.
C16_QuietAfterShutdown ==
    [][main # "serving" =>
         /\ Len(broadcast') <= Len(broadcast)
         /\ \A c \in Conns : Broadcasts(c)' = Broadcasts(c)]_vars

(***************************************************************************)
(* Properties of the ticker.                                               *)
(***************************************************************************)
\* C17: the ticker's step can always be taken, whatever the channel holds
\* and wherever the broadcaster stands, and a snapshot it has discarded is
\* never on the channel nor in the broadcaster's hands afterwards.
C17_ProducerNeverBlocked ==
    /\ [](ENABLED Tick)
    /\ [](\A t \in dropped :
            /\ \A i \in DOMAIN broadcast : broadcast[i].Timestamp # t
            /\ bcast.stats.Timestamp # t)

\* With the channel full and the broadcaster taking nothing from it, the
\* ticker has fired and discarded twice.
C17_Witness ==
    /\ Cardinality(dropped) >= 2
    /\ Len(broadcast) = BroadcastCap
    /\ bcast.pc = "recv"

(***************************************************************************)
(* Properties of the capture goroutine.                                    *)
(***************************************************************************)
\* The step receives a packet from the capture source.
Receives == Len(frames') = Len(frames) + 1

\* The packet the step receives.
Received == frames'[Len(frames')]

\* Station m has a record after the step whose IP is the one it had, or
\* empty if the record is new.
KeepsAddress(m) ==
    /\ m \in DOMAIN devices'
    /\ devices'[m].IP = IF m \in DOMAIN devices THEN devices[m].IP ELSE ""

\* C22: the capture loop calls UpdateStats exactly once for every packet it
\* receives and can always go on to the next packet; a packet without an
\* Ethernet layer changes no record; a packet with an Ethernet layer and no
\* IPv4 layer is counted for its source and its destination, whose records
\* get no address from it.
C22_OneCallPerFrame ==
    /\ [](calls = Len(frames))
    /\ [](capture = "ranging" => \A packet \in Packets : ENABLED CaptureStep(packet))
    /\ [][Receives =>
            /\ calls' = calls + 1
            /\ Received.eth = NoLayer => devices' = devices
            /\ (Received.eth # NoLayer /\ Received.ipv4 = NoLayer) =>
                  /\ IsSource(Received.eth.src) /\ IsDest(Received.eth.dst)
                  /\ \A m \in {Received.eth.src, Received.eth.dst} \ {Broadcast} :
                        KeepsAddress(m)
                  /\ devices'[Received.eth.src].PacketsSent =
                        Counter(Received.eth.src, "PacketsSent") + 1
                  /\ Received.eth.dst # Broadcast =>
                        devices'[Received.eth.dst].PacketsRecv =
                            Counter(Received.eth.dst, "PacketsRecv") + 1]_vars

\* The loop has received a packet without an Ethernet layer (with an IPv4
\* layer) and then a packet with an Ethernet layer and no IPv4 layer, which
\* made the only records there are.
C22_Witness ==
    /\ Len(frames) = 2
    /\ frames[1].eth = NoLayer /\ frames[1].ipv4 # NoLayer
    /\ frames[2].eth # NoLayer /\ frames[2].ipv4 = NoLayer
    /\ DOMAIN devices = {frames[2].eth.src, frames[2].eth.dst}
    /\ \A m \in DOMAIN devices : devices[m].IP = ""

\* C23: once the capture source has ended no further packet is counted, and
\* the program leaves its serving state: it does not go on serving as if the
\* capture were running.
C23_CaptureEndIsTerminal ==
    /\ [][capture = "ended" => calls' = calls]_vars
    /\ (capture = "ended") ~> (main # "serving")

(***************************************************************************)
(* C26: once the dashboard's cleanup has run, no reconnect timer is        *)
(* pending and no further WebSocket is created, whatever the connection's  *)
(* state was when the cleanup ran (connecting, open, closed or waiting to  *)
(* reconnect).                                                             *)
(***************************************************************************)
C26_NothingAfterCleanup ==
    /\ [](dash.effect = "cleaned" => dash.timers = {})
    /\ [][dash.effect = "cleaned" => dash'.attempts = dash.attempts]_vars

\* The connection is down: a WebSocket has been attempted and every socket
\* created so far is closed or closing (the last creation may have thrown).
Down ==
    /\ dash.attempts >= 1
    /\ \A i \in Sockets : dash.sockets[i].rs \in {"closing", "closed"}

(***************************************************************************)
(* C27: while the dashboard is mounted, every close of its WebSocket and   *)
(* every failure to create it is eventually followed by a new connection   *)
(* attempt (here: as long as fewer than MaxAttempts have been made), and   *)
(* at most one reconnect timer is pending at any time, also when both the  *)
(* error and the close event of a socket fire.                             *)
(***************************************************************************)
C27_ReconnectsWithOneTimer ==
    /\ [](dash.effect = "mounted" => Cardinality(dash.timers) <= 1)
    /\ \A n \in 1..(MaxAttempts - 1) :
          (dash.effect = "mounted" /\ Down /\ dash.attempts = n)
              ~> (dash.attempts > n \/ dash.effect # "mounted")

\* Mounted; the first socket had its error and its close event dispatched, a
\* later creation threw, and a further attempt was made after both.
C27_Witness ==
    /\ dash.effect = "mounted"
    /\ Len(dash.sockets) >= 2
    /\ dash.sockets[1].rs = "closed"
    /\ dash.sockets[1].error = "fired"
    /\ Len(dash.sockets) < dash.attempts

====
